---- MODULE Spec2Model ----
(***************************************************************************)
(* Model of starterkits/utils.py: merge_rasters (the sequential rasterio   *)
(* merge through a chain of intermediate files) and                        *)
(* mask_raster_with_geometry.                                              *)
(*                                                                         *)
(* Paths are sequences of string tokens; the token ".tif" stands for the   *)
(* four characters that str.replace looks for, and no other token contains *)
(* them.  A raster is one band and one row of pixels on an integer grid of *)
(* pixel size 1: [crs, nodata, off, width, px], where off is the world     *)
(* column of pixel 0 (the transform), nodata is {} when unset and {v} when *)
(* set, and px holds the pixel values.  A file created but not yet written *)
(* has px = <<>>.                                                          *)
(***************************************************************************)
EXTENDS Integers, Sequences, FiniteSets, TLC

VARIABLES
    raster_paths,         \* argument: ordered tile paths
    output_path,          \* argument: destination path
    method,               \* argument: 'gdal' | 'rasterio' | anything else
    fs,                   \* the file system: existing path -> raster content
    fs0,                  \* the file system when the call was made
    pc,                   \* position in merge_rasters
    i,                    \* loop index of  for i in range(1, len(raster_paths))
    current_mosaic_path,
    temp_files,
    temp_out,
    src1, src2,           \* datasets opened for reading (content at open), or Closed
    dest,                 \* the canvas rasterio.merge.merge is filling
    mosaic,               \* the local  mosaic  (array and its origin), or Unbound
    out_meta,             \* the local  out_meta, or Unbound
    arrays,               \* the full pixel arrays alive in memory
    err,                  \* the exception that left the call, "" if none
    k,                    \* index of the cleanup loop  for f in temp_files
    tileA, tileB,         \* inputs of a pairwise merge taken alone
    merged,               \* its results: [ab |-> merge([A,B]), ba |-> merge([B,A])]
    raster, shapes,       \* inputs of mask_raster_with_geometry; shapes is
                          \* [kind, geoms]: how the geometries are passed, and they
    masked                \* its output [height, width, left, top, res, keep], or Failed

mergeVars == <<raster_paths, output_path, method, fs, fs0, pc, i,
               current_mosaic_path, temp_files, temp_out, src1, src2, dest,
               mosaic, out_meta, arrays, err, k>>
pairVars == <<tileA, tileB, merged>>
maskVars == <<raster, shapes, masked>>
vars == <<mergeVars, pairVars, maskVars>>

----------------------------------------------------------------------------
(* Bounds of the model *)

MaxTiles == 3       \* longest raster_paths
MaxVal == 2         \* pixel values of the pairwise merge are 0..MaxVal
MaxWidth == 2       \* widest tile of the pairwise merge
MaxOff == 2         \* largest origin of a tile of the pairwise merge

----------------------------------------------------------------------------
(* Paths and str.replace *)

RECURSIVE Replace(_, _, _)
\* s.replace(old, new): every occurrence of the token old becomes the tokens new
Replace(s, old, new) ==
    IF s = <<>> THEN <<>>
    ELSE (IF Head(s) = old THEN new ELSE <<Head(s)>>) \o Replace(Tail(s), old, new)

\* output_path.replace('.tif', f'_temp_merge_{i}.tif')
TempPath(out, j) == Replace(out, ".tif", <<"_temp_merge_" \o ToString(j), ".tif">>)

OutputPaths == { <<"out", ".tif">>, <<"out", ".img">>, <<"out", ".tif", "f">> }

TilePaths == { <<"a", ".tif">>, <<"b", ".tif">>,
               <<"out", "_temp_merge_1", ".tif">>, <<"out", ".tif">> }

----------------------------------------------------------------------------
(* Rasters *)

Closed == [closed |-> TRUE]
Unbound == [unbound |-> TRUE]

Meta(r) == [crs |-> r.crs, nodata |-> r.nodata, off |-> r.off, width |-> r.width]

\* the file  rasterio.open(path, "w", **meta)  leaves before any write
Created(meta) == [crs |-> meta.crs, nodata |-> meta.nodata, off |-> meta.off,
                  width |-> meta.width, px |-> <<>>]

\* the file after  dest.write(array)
Written(meta, array) == [crs |-> meta.crs, nodata |-> meta.nodata, off |-> meta.off,
                         width |-> meta.width, px |-> array]

Min(a, b) == IF a < b THEN a ELSE b
Max(a, b) == IF a > b THEN a ELSE b

\* rasterio.merge.merge: the output bounds are the union of the sources' bounds
West(A, B) == Min(A.off, B.off)
East(A, B) == Max(A.off + A.width, B.off + B.width)

\* rasterio.merge.merge: nodataval is the first source's nodata, 0 when unset
NodataVal(first) == IF first.nodata = {} THEN 0 ELSE CHOOSE v \in first.nodata : TRUE

\* rasterio.merge.merge: dest = np.zeros(...); dest.fill(nodataval)
Canvas(A, B) == [x \in 1..(East(A, B) - West(A, B)) |-> NodataVal(A)]

\* the last source painted wins: what merge(..., method='last') would do
CopyLast(old, new, region_mask, temp_mask) ==
    IF ~temp_mask THEN new ELSE old

\* a copy that does not look at the source's mask
CopyAlways(old, new, region_mask, temp_mask) == new

\* rasterio.merge.copy_first, the default method of merge(): a pixel of the
\* canvas is taken from the new source only where the canvas still holds
\* nodataval (region_mask) and the source's pixel is valid (not temp_mask)
CopyFirst(old, new, region_mask, temp_mask) ==
    IF region_mask /\ ~temp_mask THEN new ELSE old

\* one turn of merge()'s loop over the sources: src.read(masked=True) and copyto
Paint(canvas, west, nodataval, src) ==
    [x \in 1..Len(canvas) |->
        LET col == west + x - 1 IN
        IF col >= src.off /\ col < src.off + src.width
        THEN LET v == src.px[col - src.off + 1] IN
             CopyFirst(canvas[x], v, canvas[x] = nodataval, v \in src.nodata)
        ELSE canvas[x]]

\* mosaic, out_trans = merge([A, B])
Merge(A, B) ==
    [px |-> Paint(Paint(Canvas(A, B), West(A, B), NodataVal(A), A),
                  West(A, B), NodataVal(A), B),
     off |-> West(A, B)]

\* out_meta = src1.meta.copy(); out_meta.update(width=..., transform=out_trans)
MergedMeta(A, m) == [crs |-> A.crs, nodata |-> A.nodata, off |-> m.off,
                     width |-> Len(m.px)]

----------------------------------------------------------------------------
(* The files the call finds on disk *)

\* what each tile holds; crsB is the coordinate reference system of b.tif
TileContent(p, crsB) ==
    CASE p = <<"a", ".tif">> ->
           [crs |-> "EPSG:4326", nodata |-> {0}, off |-> 0, width |-> 2, px |-> <<5, 5>>]
      [] p = <<"b", ".tif">> ->
           [crs |-> crsB, nodata |-> {0}, off |-> 1, width |-> 2, px |-> <<7, 0>>]
      [] p = <<"out", "_temp_merge_1", ".tif">> ->
           [crs |-> "EPSG:4326", nodata |-> {0}, off |-> 2, width |-> 1, px |-> <<3>>]
      [] OTHER ->
           [crs |-> "EPSG:4326", nodata |-> {0}, off |-> 0, width |-> 1, px |-> <<9>>]

Range(s) == { s[j] : j \in 1..Len(s) }

PathLists == UNION { [1..m -> TilePaths] : m \in 0..MaxTiles }

Methods == { "rasterio", "gdal", "vrt" }

NoErr == [type |-> "", at |-> ""]

\* len(raster_paths)
n == Len(raster_paths)

Remove(files, p) == [q \in (DOMAIN files) \ {p} |-> files[q]]

Put(files, p, content) == (p :> content) @@ files

\* list.remove(x): drops the first occurrence of x
ListRemove(s, x) ==
    LET j == CHOOSE j \in 1..Len(s) : s[j] = x /\ \A h \in 1..(j - 1) : s[h] # x
    IN  SubSeq(s, 1, j - 1) \o SubSeq(s, j + 1, Len(s))

pairIdle == tileA = Closed /\ tileB = Closed /\ merged = Unbound
maskIdle == raster = Closed /\ shapes = Unbound /\ masked = Unbound

Init ==
    /\ raster_paths \in PathLists
    /\ output_path \in OutputPaths
    /\ method \in Methods
    /\ \E crsB \in {"EPSG:4326", "EPSG:3857"}, existed \in BOOLEAN :
          fs = [p \in Range(raster_paths) \cup (IF existed THEN {output_path} ELSE {})
                  |-> TileContent(p, crsB)]
    /\ fs0 = fs
    /\ pc = "start"
    /\ i = 0
    /\ current_mosaic_path = <<>>
    /\ temp_files = <<>>
    /\ temp_out = <<>>
    /\ src1 = Closed /\ src2 = Closed
    /\ dest = Unbound /\ mosaic = Unbound /\ out_meta = Unbound
    /\ arrays = {}
    /\ err = NoErr
    /\ k = 0
    /\ pairIdle /\ maskIdle

----------------------------------------------------------------------------
(* merge_rasters *)

\* an exception leaves the call: nothing after the raise runs
Raise(type) ==
    /\ pc' = "failed"
    /\ err' = [type |-> type, at |-> pc]
    /\ UNCHANGED <<raster_paths, output_path, method, fs, fs0, i, current_mosaic_path,
                   temp_files, temp_out, src1, src2, dest, mosaic, out_meta, arrays, k>>

\* lines 86-98 and 141-142: the empty list returns, the method selects the branch
Start ==
    /\ pc = "start"
    /\ IF raster_paths = <<>>
       THEN /\ pc' = "done"
            /\ UNCHANGED <<current_mosaic_path, temp_files, i, err>>
       ELSE CASE method = "gdal" ->
                   /\ pc' = "gdal"
                   /\ UNCHANGED <<current_mosaic_path, temp_files, i, err>>
              [] method = "rasterio" ->
                   /\ pc' = "loop"
                   /\ current_mosaic_path' = raster_paths[1]
                   /\ temp_files' = <<>>
                   /\ i' = 1
                   /\ err' = err
              [] OTHER ->
                   /\ pc' = "failed"
                   /\ err' = [type |-> "ValueError", at |-> pc]
                   /\ UNCHANGED <<current_mosaic_path, temp_files, i>>
    /\ UNCHANGED <<raster_paths, output_path, method, fs, fs0, temp_out, src1, src2,
                   dest, mosaic, out_meta, arrays, k>>

RECURSIVE VrtPaint(_, _, _, _)
\* gdal.BuildVRT draws the sources in order, each over the ones before it
VrtPaint(canvas, west, nodataval, tiles) ==
    IF tiles = <<>> THEN canvas
    ELSE VrtPaint([x \in 1..Len(canvas) |->
                      LET col == west + x - 1
                          t == Head(tiles) IN
                      IF col >= t.off /\ col < t.off + t.width
                           /\ t.px[col - t.off + 1] \notin t.nodata
                      THEN t.px[col - t.off + 1]
                      ELSE canvas[x]],
                  west, nodataval, Tail(tiles))

\* gdal.Translate(output_path, gdal.BuildVRT('', raster_paths))
Translated(tiles) ==
    LET west == CHOOSE w \in { t.off : t \in Range(tiles) } :
                    \A t \in Range(tiles) : w <= t.off
        east == CHOOSE e \in { t.off + t.width : t \in Range(tiles) } :
                    \A t \in Range(tiles) : e >= t.off + t.width
        nd == NodataVal(tiles[1])
    IN  [crs |-> tiles[1].crs, nodata |-> tiles[1].nodata, off |-> west,
         width |-> east - west,
         px |-> VrtPaint([x \in 1..(east - west) |-> nd], west, nd, tiles)]

\* lines 90-93 and 144
Gdal ==
    /\ pc = "gdal"
    /\ \/ /\ fs' = Put(fs, output_path, Translated([j \in 1..n |-> fs[raster_paths[j]]]))
          /\ pc' = "done"
          /\ UNCHANGED <<raster_paths, output_path, method, fs0, i, current_mosaic_path,
                         temp_files, temp_out, src1, src2, dest, mosaic, out_meta,
                         arrays, err, k>>
       \/ Raise("IOError")

\* lines 101-106: the loop test, temp_out and temp_files.append(temp_out)
LoopHead ==
    /\ pc = "loop"
    /\ IF i <= n - 1
       THEN /\ temp_out' = TempPath(output_path, i)
            /\ temp_files' = Append(temp_files, TempPath(output_path, i))
            /\ pc' = "open"
       ELSE /\ pc' = "after"
            /\ UNCHANGED <<temp_out, temp_files>>
    /\ UNCHANGED <<raster_paths, output_path, method, fs, fs0, i, current_mosaic_path,
                   src1, src2, dest, mosaic, out_meta, arrays, err, k>>

\* line 108: rasterio.open(current_mosaic_path), rasterio.open(raster_paths[i])
OpenSources ==
    /\ pc = "open"
    /\ \/ /\ current_mosaic_path \in DOMAIN fs
          /\ raster_paths[i + 1] \in DOMAIN fs
          /\ src1' = fs[current_mosaic_path]
          /\ src2' = fs[raster_paths[i + 1]]
          /\ pc' = "merge"
          /\ UNCHANGED <<raster_paths, output_path, method, fs, fs0, i,
                         current_mosaic_path, temp_files, temp_out, dest, mosaic,
                         out_meta, arrays, err, k>>
       \/ Raise("IOError")

\* line 109, inside merge(): the output canvas is allocated; the local  mosaic
\* of the previous turn of the loop is still bound
MergeAlloc ==
    /\ pc = "merge"
    /\ dest' = Canvas(src1, src2)
    /\ arrays' = arrays \cup {"dest"}
    /\ pc' = "merge_first"
    /\ UNCHANGED <<raster_paths, output_path, method, fs, fs0, i, current_mosaic_path,
                   temp_files, temp_out, src1, src2, mosaic, out_meta, err, k>>

\* line 109, inside merge(): the first source is read and painted
MergeFirst ==
    /\ pc = "merge_first"
    /\ dest' = Paint(dest, West(src1, src2), NodataVal(src1), src1)
    /\ arrays' = arrays \cup {"temp_src"}
    /\ pc' = "merge_second"
    /\ UNCHANGED <<raster_paths, output_path, method, fs, fs0, i, current_mosaic_path,
                   temp_files, temp_out, src1, src2, mosaic, out_meta, err, k>>

\* line 109, inside merge(): the second source is read and painted.  merge_rasters
\* compares no CRS itself; rasterio from 1.4 raises on a source whose CRS differs
\* from the first one's, earlier releases paint it as it is
MergeSecond ==
    /\ pc = "merge_second"
    /\ \/ /\ dest' = Paint(dest, West(src1, src2), NodataVal(src1), src2)
          /\ arrays' = arrays \cup {"temp_src"}
          /\ pc' = "merge_return"
          /\ UNCHANGED <<raster_paths, output_path, method, fs, fs0, i,
                         current_mosaic_path, temp_files, temp_out, src1, src2, mosaic,
                         out_meta, err, k>>
       \/ /\ src1.crs # src2.crs
          /\ Raise("RasterioError")

\* out_meta copied from the second dataset instead of the first
MergeReturnSecondMeta ==
    /\ pc = "merge_return"
    /\ mosaic' = [px |-> dest, off |-> West(src1, src2)]
    /\ out_meta' = MergedMeta(src2, [px |-> dest, off |-> West(src1, src2)])
    /\ dest' = Unbound
    /\ arrays' = {"mosaic"}
    /\ pc' = "open_dest"
    /\ UNCHANGED <<raster_paths, output_path, method, fs, fs0, i, current_mosaic_path,
                   temp_files, temp_out, src1, src2, err, k>>

\* lines 109-116: merge() returns, mosaic and out_meta are (re)bound; the array
\* mosaic held before and merge()'s temporaries are released
MergeReturn ==
    /\ pc = "merge_return"
    /\ mosaic' = [px |-> dest, off |-> West(src1, src2)]
    /\ out_meta' = MergedMeta(src1, [px |-> dest, off |-> West(src1, src2)])
    /\ dest' = Unbound
    /\ arrays' = {"mosaic"}
    /\ pc' = "open_dest"
    /\ UNCHANGED <<raster_paths, output_path, method, fs, fs0, i, current_mosaic_path,
                   temp_files, temp_out, src1, src2, err, k>>

\* a step that removes the intermediate file it has just merged before it
\* writes the next one
OpenDestDropsPrevious ==
    /\ pc = "open_dest"
    /\ \/ /\ fs' = Put(IF i > 1 THEN Remove(fs, current_mosaic_path) ELSE fs,
                        temp_out, Created(out_meta))
          /\ pc' = "write"
          /\ UNCHANGED <<raster_paths, output_path, method, fs0, i, current_mosaic_path,
                         temp_files, temp_out, src1, src2, dest, mosaic, out_meta,
                         arrays, err, k>>
       \/ Raise("IOError")

\* line 118: rasterio.open(temp_out, "w", **out_meta)
OpenDest ==
    /\ pc = "open_dest"
    /\ \/ /\ fs' = Put(fs, temp_out, Created(out_meta))
          /\ pc' = "write"
          /\ UNCHANGED <<raster_paths, output_path, method, fs0, i, current_mosaic_path,
                         temp_files, temp_out, src1, src2, dest, mosaic, out_meta,
                         arrays, err, k>>
       \/ Raise("IOError")

\* line 119: dest.write(mosaic); a failed write leaves the file it was writing
WriteDest ==
    /\ pc = "write"
    /\ \/ /\ fs' = Put(fs, temp_out, Written(out_meta, mosaic.px))
          /\ pc' = "advance"
          /\ UNCHANGED <<raster_paths, output_path, method, fs0, i, current_mosaic_path,
                         temp_files, temp_out, src1, src2, dest, mosaic, out_meta,
                         arrays, err, k>>
       \/ Raise("IOError")

\* lines 108 (leaving the with block) and 121
Advance ==
    /\ pc = "advance"
    /\ src1' = Closed /\ src2' = Closed
    /\ current_mosaic_path' = temp_out
    /\ i' = i + 1
    /\ pc' = "loop"
    /\ UNCHANGED <<raster_paths, output_path, method, fs, fs0, temp_files, temp_out,
                   dest, mosaic, out_meta, arrays, err, k>>

\* line 125
AfterLoop ==
    /\ pc = "after"
    /\ pc' = IF n = 1 THEN "copy_open_src" ELSE "promote"
    /\ UNCHANGED <<raster_paths, output_path, method, fs, fs0, i, current_mosaic_path,
                   temp_files, temp_out, src1, src2, dest, mosaic, out_meta, arrays,
                   err, k>>

\* lines 126-127: rasterio.open(raster_paths[0]) and src.meta.copy()
CopyOpenSrc ==
    /\ pc = "copy_open_src"
    /\ \/ /\ raster_paths[1] \in DOMAIN fs
          /\ src1' = fs[raster_paths[1]]
          /\ out_meta' = Meta(fs[raster_paths[1]])
          /\ pc' = "copy_open_dest"
          /\ UNCHANGED <<raster_paths, output_path, method, fs, fs0, i,
                         current_mosaic_path, temp_files, temp_out, src2, dest, mosaic,
                         arrays, err, k>>
       \/ Raise("IOError")

\* line 128: rasterio.open(output_path, "w", **out_meta)
CopyOpenDest ==
    /\ pc = "copy_open_dest"
    /\ \/ /\ fs' = Put(fs, output_path, Created(out_meta))
          /\ pc' = "copy_read"
          /\ UNCHANGED <<raster_paths, output_path, method, fs0, i, current_mosaic_path,
                         temp_files, temp_out, src1, src2, dest, mosaic, out_meta,
                         arrays, err, k>>
       \/ Raise("IOError")

\* line 129, src.read(): the dataset opened at line 126 is read after the
\* destination was opened for writing.  When both are one path the read either
\* still sees the file it opened (the writer unlinked it and made a new one) or
\* fails
CopyRead ==
    /\ pc = "copy_read"
    /\ \/ /\ arrays' = arrays \cup {"read"}
          /\ pc' = "copy_write"
          /\ UNCHANGED <<raster_paths, output_path, method, fs, fs0, i,
                         current_mosaic_path, temp_files, temp_out, src1, src2, dest,
                         mosaic, out_meta, err, k>>
       \/ Raise("IOError")

\* the array of line 129 written with the transform of the merged pair
CopyWriteShifted ==
    /\ pc = "copy_write"
    /\ fs' = Put(fs, output_path,
                 Written([out_meta EXCEPT !.off = out_meta.off + 1], src1.px))
    /\ arrays' = arrays \ {"read"}
    /\ src1' = Closed
    /\ pc' = "cleanup"
    /\ k' = 1
    /\ UNCHANGED <<raster_paths, output_path, method, fs0, i, current_mosaic_path,
                   temp_files, temp_out, src2, dest, mosaic, out_meta, err>>

\* line 129, dest.write(...), and leaving both with blocks
CopyWrite ==
    /\ pc = "copy_write"
    /\ \/ /\ fs' = Put(fs, output_path, Written(out_meta, src1.px))
          /\ arrays' = arrays \ {"read"}
          /\ src1' = Closed
          /\ pc' = "cleanup"
          /\ k' = 1
          /\ UNCHANGED <<raster_paths, output_path, method, fs0, i, current_mosaic_path,
                         temp_files, temp_out, src2, dest, mosaic, out_meta, err>>
       \/ Raise("IOError")

\* lines 132-133: if os.path.exists(output_path): os.remove(output_path)
PromoteRemove ==
    /\ pc = "promote"
    /\ fs' = IF output_path \in DOMAIN fs THEN Remove(fs, output_path) ELSE fs
    /\ pc' = "rename"
    /\ UNCHANGED <<raster_paths, output_path, method, fs0, i, current_mosaic_path,
                   temp_files, temp_out, src1, src2, dest, mosaic, out_meta, arrays,
                   err, k>>

\* lines 134-135: os.rename(current_mosaic_path, output_path) and
\* temp_files.remove(current_mosaic_path)
PromoteRename ==
    /\ pc = "rename"
    /\ IF current_mosaic_path \in DOMAIN fs
       THEN /\ fs' = Put(Remove(fs, current_mosaic_path), output_path,
                         fs[current_mosaic_path])
            /\ temp_files' = ListRemove(temp_files, current_mosaic_path)
            /\ pc' = "cleanup"
            /\ k' = 1
            /\ UNCHANGED <<raster_paths, output_path, method, fs0, i,
                           current_mosaic_path, temp_out, src1, src2, dest, mosaic,
                           out_meta, arrays, err>>
       ELSE Raise("FileNotFoundError")

\* a cleanup loop that forgets to remove
CleanupSkips ==
    /\ pc = "cleanup"
    /\ IF k <= Len(temp_files)
       THEN k' = k + 1 /\ pc' = pc
       ELSE k' = k /\ pc' = "print"
    /\ UNCHANGED <<raster_paths, output_path, method, fs, fs0, i, current_mosaic_path,
                   temp_files, temp_out, src1, src2, dest, mosaic, out_meta, arrays, err>>

\* lines 138-140: for f in temp_files: if os.path.exists(f): os.remove(f)
Cleanup ==
    /\ pc = "cleanup"
    /\ IF k <= Len(temp_files)
       THEN /\ fs' = IF temp_files[k] \in DOMAIN fs THEN Remove(fs, temp_files[k]) ELSE fs
            /\ k' = k + 1
            /\ pc' = pc
       ELSE /\ pc' = "print"
            /\ UNCHANGED <<fs, k>>
    /\ UNCHANGED <<raster_paths, output_path, method, fs0, i, current_mosaic_path,
                   temp_files, temp_out, src1, src2, dest, mosaic, out_meta, arrays, err>>

\* line 144, and the return
Finish ==
    /\ pc = "print"
    /\ pc' = "done"
    /\ arrays' = {}
    /\ UNCHANGED <<raster_paths, output_path, method, fs, fs0, i, current_mosaic_path,
                   temp_files, temp_out, src1, src2, dest, mosaic, out_meta, err, k>>

Next ==
    \/ (Start /\ UNCHANGED <<pairVars, maskVars>>)
    \/ (Gdal /\ UNCHANGED <<pairVars, maskVars>>)
    \/ (LoopHead /\ UNCHANGED <<pairVars, maskVars>>)
    \/ (OpenSources /\ UNCHANGED <<pairVars, maskVars>>)
    \/ (MergeAlloc /\ UNCHANGED <<pairVars, maskVars>>)
    \/ (MergeFirst /\ UNCHANGED <<pairVars, maskVars>>)
    \/ (MergeSecond /\ UNCHANGED <<pairVars, maskVars>>)
    \/ (MergeReturn /\ UNCHANGED <<pairVars, maskVars>>)
    \/ (OpenDest /\ UNCHANGED <<pairVars, maskVars>>)
    \/ (WriteDest /\ UNCHANGED <<pairVars, maskVars>>)
    \/ (Advance /\ UNCHANGED <<pairVars, maskVars>>)
    \/ (AfterLoop /\ UNCHANGED <<pairVars, maskVars>>)
    \/ (CopyOpenSrc /\ UNCHANGED <<pairVars, maskVars>>)
    \/ (CopyOpenDest /\ UNCHANGED <<pairVars, maskVars>>)
    \/ (CopyRead /\ UNCHANGED <<pairVars, maskVars>>)
    \/ (CopyWrite /\ UNCHANGED <<pairVars, maskVars>>)
    \/ (PromoteRemove /\ UNCHANGED <<pairVars, maskVars>>)
    \/ (PromoteRename /\ UNCHANGED <<pairVars, maskVars>>)
    \/ (Cleanup /\ UNCHANGED <<pairVars, maskVars>>)
    \/ (Finish /\ UNCHANGED <<pairVars, maskVars>>)

Spec == Init /\ [][Next]_vars

----------------------------------------------------------------------------
(* The pairwise merge of line 109 taken alone *)

mergeIdle ==
    /\ raster_paths = <<>> /\ output_path = <<>> /\ method = ""
    /\ fs = <<>> /\ fs0 = <<>> /\ pc = "idle" /\ i = 0
    /\ current_mosaic_path = <<>> /\ temp_files = <<>> /\ temp_out = <<>>
    /\ src1 = Closed /\ src2 = Closed
    /\ dest = Unbound /\ mosaic = Unbound /\ out_meta = Unbound
    /\ arrays = {} /\ err = NoErr /\ k = 0

\* every tile of at most MaxWidth pixels with values 0..MaxVal, origin 0..MaxOff,
\* and nodata unset, 0 or MaxVal
PairTiles ==
    { [crs |-> "EPSG:4326", nodata |-> nd, off |-> o, width |-> Len(p), px |-> p] :
        nd \in { {}, {0}, {MaxVal} },
        o \in 0..MaxOff,
        p \in UNION { [1..w -> 0..MaxVal] : w \in 1..MaxWidth } }

PairInit ==
    /\ tileA \in PairTiles
    /\ tileB \in PairTiles
    /\ merged = Unbound
    /\ mergeIdle /\ maskIdle

\* line 109 with src1, src2 = A, B and with src1, src2 = B, A
MergePair ==
    /\ merged = Unbound
    /\ merged' = [ab |-> Merge(tileA, tileB), ba |-> Merge(tileB, tileA)]
    /\ UNCHANGED <<tileA, tileB, mergeVars, maskVars>>

PairNext == MergePair

SpecPair == PairInit /\ [][PairNext]_vars

----------------------------------------------------------------------------
(* mask_raster_with_geometry *)
(* A raster here is north-up: [left, top, res, width, height], its affine  *)
(* transform maps pixel (row, col) to (left + col * res, top - row * res). *)
(* A shape is an axis-parallel rectangle [minx, miny, maxx, maxy] in world *)
(* coordinates.                                                            *)

MaxDim == 2         \* most rows and most columns of the raster to mask
MaxRes == 2         \* largest pixel size of the raster to mask

PixelSizes == 1..MaxRes

Floor(a, b) == a \div b
Ceil(a, b) == -((-a) \div b)

MaskRasters ==
    { [left |-> l, top |-> l + h * r, res |-> r, width |-> w, height |-> h] :
        l \in {1}, r \in PixelSizes, w \in 1..MaxDim, h \in 1..MaxDim }

\* the rectangles that lie within the extent of R
Rects(R) ==
    { [minx |-> x1, miny |-> y1, maxx |-> x2, maxy |-> y2] :
        x1 \in R.left..(R.left + R.width * R.res - 1),
        x2 \in (R.left + 1)..(R.left + R.width * R.res),
        y1 \in (R.top - R.height * R.res)..(R.top - 1),
        y2 \in (R.top - R.height * R.res + 1)..R.top }

Boxes(R) == { s \in Rects(R) : s.minx < s.maxx /\ s.miny < s.maxy }

UnitBoxes(R) == { s \in Boxes(R) : s.maxx = s.minx + 1 /\ s.maxy = s.miny + 1 }

\* G: one rectangle, or a rectangle and a unit square
ShapeSets(R) == { {s} : s \in Boxes(R) } \cup { {s, u} : s \in Boxes(R), u \in UnitBoxes(R) }

SetMin(S) == CHOOSE x \in S : \A y \in S : x <= y
SetMax(S) == CHOOSE x \in S : \A y \in S : x >= y

\* the bounding box of all shapes
BBox(G) == [minx |-> SetMin({ s.minx : s \in G }), miny |-> SetMin({ s.miny : s \in G }),
            maxx |-> SetMax({ s.maxx : s \in G }), maxy |-> SetMax({ s.maxy : s \in G })]

\* crop=False: the window is the whole raster
WholeWindow(R, G) ==
    [col_off |-> 0, row_off |-> 0, width |-> R.width, height |-> R.height]

\* rasterio.mask.mask(src, shapes, crop=True): the window of the shapes' bounds,
\* offsets rounded down and ends rounded up to whole pixels, cut to the raster
GeometryWindow(R, G) ==
    LET b == BBox(G)
        col_start == Max(Floor(b.minx - R.left, R.res), 0)
        col_stop == Min(Ceil(b.maxx - R.left, R.res), R.width)
        row_start == Max(Floor(R.top - b.maxy, R.res), 0)
        row_stop == Min(Ceil(R.top - b.miny, R.res), R.height)
    IN  [col_off |-> col_start, row_off |-> row_start,
         width |-> col_stop - col_start, height |-> row_stop - row_start]

\* a pixel is kept when its centre lies in a shape (all_touched=False);
\* coordinates are doubled so that the centre is an integer
Kept(R, G, win) ==
    { rc \in (0..(win.height - 1)) \X (0..(win.width - 1)) :
        LET cx == 2 * R.left + (2 * (win.col_off + rc[2]) + 1) * R.res
            cy == 2 * R.top - (2 * (win.row_off + rc[1]) + 1) * R.res
        IN  \E s \in G : /\ 2 * s.minx <= cx /\ cx <= 2 * s.maxx
                         /\ 2 * s.miny <= cy /\ cy <= 2 * s.maxy }

\* lines 61-73: out_image, out_transform = mask(src, shapes, crop=True) and the
\* meta written: height and width from out_image.shape, transform out_transform
MaskOutput(R, G) ==
    LET win == GeometryWindow(R, G) IN
    [height |-> win.height, width |-> win.width,
     left |-> R.left + win.col_off * R.res, top |-> R.top - win.row_off * R.res,
     res |-> R.res, keep |-> Kept(R, G, win)]

\* what shapes can be: a path to a vector file, a GeoDataFrame, a list, or
\* anything else
ShapeKinds == { "str", "GeoDataFrame", "list", "tuple" }

Failed(type) == [error |-> type]

MaskInit ==
    /\ raster \in MaskRasters
    /\ \E kind \in ShapeKinds, G \in ShapeSets(raster) :
          shapes = [kind |-> kind, geoms |-> G]
    /\ masked = Unbound
    /\ mergeIdle /\ pairIdle

\* mask_raster_with_geometry(raster_path, shapes, output_path): lines 51-59 take
\* the geometries out of shapes or raise, lines 61-73 mask and write
Mask ==
    /\ masked = Unbound
    /\ masked' = IF shapes.kind \in { "str", "GeoDataFrame", "list" }
                 THEN MaskOutput(raster, shapes.geoms)
                 ELSE Failed("ValueError")
    /\ UNCHANGED <<raster, shapes, mergeVars, pairVars>>

MaskNext == Mask

SpecMask == MaskInit /\ [][MaskNext]_vars

----------------------------------------------------------------------------
(* Properties of merge_rasters, checked under Spec *)

Rasterio == method = "rasterio"

\* the positions inside one turn of the loop of lines 101-121
InStep == { "open", "merge", "merge_first", "merge_second", "merge_return",
            "open_dest", "write", "advance" }

\* an exception left the call from the pairwise step of index i
FailedInStep == pc = "failed" /\ err.at \in InStep

\* C1: when a rasterio merge of two or more tiles returns, the destination
\* path holds a file, it is the last mosaic written, and none of the paths
\* _temp_merge_1 .. _temp_merge_(n-1) is left on disk.
C1_OneOutputNoTemps ==
    (Rasterio /\ pc = "done" /\ n >= 2) =>
        /\ output_path \in DOMAIN fs
        /\ fs[output_path] = Written(out_meta, mosaic.px)
        /\ \A j \in 1..(n - 1) : TempPath(output_path, j) \notin DOMAIN fs

\* a merge of three tiles onto an existing destination has returned
C1_Witness ==
    Rasterio /\ pc = "done" /\ n = 3 /\ output_path \in DOMAIN fs0

C3_SingleTileCopy ==
    (Rasterio /\ pc = "done" /\ n = 1) =>
        /\ output_path \in DOMAIN fs
        /\ fs[output_path] = fs0[raster_paths[1]]
        /\ temp_files = <<>>
        /\ mosaic = Unbound

\* a single tile was copied to a destination other than itself
C3_Witness ==
    Rasterio /\ pc = "done" /\ n = 1 /\ output_path # raster_paths[1]

\* C6 as stated: never more than two full pixel arrays are alive.
C6_Original == Cardinality(arrays) <= 2

\* the first two tiles' coordinate reference systems differ
PairCrsDiffer ==
    /\ Rasterio /\ n = 2
    /\ fs0[raster_paths[1]].crs # fs0[raster_paths[2]].crs

C9_Original ==
    pc \in InStep =>
        /\ temp_out # output_path
        /\ \A a, b \in 1..Len(temp_files) : a # b => temp_files[a] # temp_files[b]

\* C10 as stated: when no tile path is the destination path, every tile file
\* stays on disk with the content it had when the call was made.
C10_Original ==
    (Rasterio /\ output_path \notin Range(raster_paths)) =>
        \A t \in Range(raster_paths) : t \in DOMAIN fs /\ fs[t] = fs0[t]

----------------------------------------------------------------------------
(* Properties of the pairwise merge, checked under SpecPair *)

\* the world columns both tiles cover
Overlap(A, B) ==
    { c \in Max(A.off, B.off)..(Min(A.off + A.width, B.off + B.width) - 1) : TRUE }

\* the value a tile or a mosaic holds at a world column
At(t, c) == t.px[c - t.off + 1]

\* the value is not the tile's nodata
Valid(t, c) == At(t, c) \notin t.nodata

\* the value is not the tile's nodata nor, for a tile without nodata, 0
Real(t, c) == Valid(t, c) /\ At(t, c) # NodataVal(t)

\* C4 as stated: where both tiles hold valid data, merge([A,B]) holds B's value
\* and merge([B,A]) holds A's.
C4_Original ==
    merged # Unbound =>
        \A c \in Overlap(tileA, tileB) :
            (Valid(tileA, c) /\ Valid(tileB, c)) =>
                /\ At(merged.ab, c) = At(tileB, c)
                /\ At(merged.ba, c) = At(tileA, c)

\* C4 amended: where both tiles hold real data, merge([A,B]) holds A's value
\* and merge([B,A]) holds B's: the earlier tile wins, and the two orders differ
\* wherever the two values differ.
C4_FirstWins ==
    merged # Unbound =>
        \A c \in Overlap(tileA, tileB) :
            (Real(tileA, c) /\ Real(tileB, c)) =>
                /\ At(merged.ab, c) = At(tileA, c)
                /\ At(merged.ba, c) = At(tileB, c)

\* two tiles that hold different real values at a common column were merged
C4_Witness ==
    /\ merged # Unbound
    /\ \E c \in Overlap(tileA, tileB) :
          Real(tileA, c) /\ Real(tileB, c) /\ At(tileA, c) # At(tileB, c)

\* C5: where B holds nodata and A holds valid data, merge([A,B]) holds A's value.
C5_NodataNeverOverwrites ==
    merged # Unbound =>
        \A c \in Overlap(tileA, tileB) :
            (~Valid(tileB, c) /\ Valid(tileA, c)) => At(merged.ab, c) = At(tileA, c)

\* a tile with nodata at a column was merged over one with valid data there
C5_Witness ==
    /\ merged # Unbound
    /\ \E c \in Overlap(tileA, tileB) :
          ~Valid(tileB, c) /\ Valid(tileA, c) /\ At(tileA, c) # At(tileB, c)

----------------------------------------------------------------------------
(* Properties of mask_raster_with_geometry, checked under SpecMask *)

\* the masked raster was written
MaskWritten == masked # Unbound /\ masked # Failed("ValueError")

\* the bounding box of G
GBox == BBox(shapes.geoms)

\* C8 as stated: the output is no larger than the raster and the transform
\* maps pixel (0,0) to a point inside the bounding box of the shapes.
C8_Original ==
    MaskWritten =>
        /\ masked.width <= raster.width /\ masked.height <= raster.height
        /\ GBox.minx <= masked.left /\ masked.left <= GBox.maxx
        /\ GBox.miny <= masked.top /\ masked.top <= GBox.maxy

\* C8 amended: the output is no larger than the raster and the upper left
\* corner of the shapes' bounding box lies in the cell of output pixel (0,0):
\* the transform maps pixel (0,0) to a point less than one pixel to the left
\* of and above that corner, or onto it.
C8_OriginWithinOnePixel ==
    MaskWritten =>
        /\ masked.width <= raster.width /\ masked.height <= raster.height
        /\ masked.left <= GBox.minx
        /\ GBox.minx < masked.left + raster.res
        /\ masked.top >= GBox.maxy
        /\ GBox.maxy > masked.top - raster.res

\* a raster was cropped to two shapes whose bounding box starts inside a pixel
C8_Witness ==
    /\ MaskWritten
    /\ Cardinality(shapes.geoms) = 2
    /\ masked.width < raster.width
    /\ masked.left < GBox.minx /\ masked.top > GBox.maxy

====
